---- MODULE Spec2Model ----
(***************************************************************************)
(* Verification model of the stravinsky native helpers (rust_native/src):  *)
(*   git_analysis.rs   get_related_files   (co-occurrence miner)           *)
(*   hybrid_graph.rs   get_hybrid_context  (hybrid scorer)                 *)
(*   lib.rs            chunk_code / walk_and_chunk (code chunker)          *)
(*   watcher.rs        main                (debounced change watcher)      *)
(*                                                                         *)
(* Strings are sequences of one-character strings, so that trim, ends_with *)
(* and contains are computed as the code computes them.  A git log output  *)
(* is a sequence of lines; the separator COMMIT_START, which git prints on *)
(* a line of its own, is the one-element line SEP.  Within one commit git   *)
(* lists each changed path once.                                           *)
(*                                                                         *)
(* A std HashMap or HashSet iterates in an arbitrary order that differs    *)
(* between instances: every order is a possible outcome (IterOrders).      *)
(*                                                                         *)
(* The watcher's records carry the Instant of their emission (the `now` of *)
(* the loop body) next to the printed type and path; a path is the string  *)
(* path_str.  Each component has its own specification; the variables of   *)
(* the other components stay idle in it.                                   *)
(***************************************************************************)
EXTENDS Integers, Sequences, FiniteSets, TLC

VARIABLES
    \* ---- the repository and the arguments of get_related_files
    repo,           \* the commits of the last 6 months, newest first: each a sequence of path lines
    target_file,    \* argument target_file
    limit,          \* argument limit
    \* ---- get_related_files (git_analysis.rs)
    pc,             \* position in get_related_files
    log1,           \* outcome of the first git log invocation
    log2,           \* outcome of the second git log invocation
    retrieved,      \* the commits the second git log printed before it ended
    stdout_sep,     \* output_with_sep.stdout, as lines
    block_idx,      \* index of the next commit_block of the for loop
    co_occurrence,  \* HashMap<String, u32>
    related,        \* Vec<(String, u32)>
    ret,            \* the value returned: Ok(files) or Err(PyIOError)
    \* ---- the watcher (watcher.rs)
    rx,             \* the unbounded channel from the notify thread to main
    cur,            \* the event main is handling: its kind and the paths still to handle
    clock,          \* the monotonic clock read by Instant::now(), in ms
    ticks,          \* how often the clock has advanced
    sent,           \* how many messages the notify thread has sent
    last_events,    \* HashMap<String, Instant>
    out,            \* the records printed on stdout, each with the Instant of its emission
    errs,           \* the number of watch errors printed on stderr
    dropped,        \* how many path iterations found should_emit false and printed nothing
    \* ---- chunk_code / walk_and_chunk (lib.rs)
    language,       \* argument language
    tree,           \* the syntax tree of the content: node 1 is the root, nodes are numbered in pre-order
    c_pc,           \* position in chunk_code
    node,           \* the next node walk_and_chunk visits
    current_class,  \* current_class of each visited node's call of walk_and_chunk
    chunks,         \* Vec of the chunks pushed so far
    \* ---- get_hybrid_context (hybrid_graph.rs)
    on_disk,        \* the imports get_imports finds in the target file, or Missing
    threshold_score,\* argument threshold_score, in tenths
    h_pc,           \* position in get_hybrid_context
    git_run,        \* how the call of get_related_files went
    git_files,      \* its result
    scored_files,   \* Vec<(String, f64, String)>
    h_ret,          \* the value returned by get_hybrid_context
    prev            \* the threshold and the result of the call before this one

minerVars == <<repo, target_file, limit, pc, log1, log2, retrieved, stdout_sep,
               block_idx, co_occurrence, related, ret>>

watchVars == <<rx, cur, clock, ticks, sent, last_events, out, errs, dropped>>

chunkVars == <<language, tree, c_pc, node, current_class, chunks>>

hybridVars == <<on_disk, threshold_score, h_pc, git_run, git_files, scored_files, h_ret, prev>>

vars == <<minerVars, watchVars, chunkVars, hybridVars>>

(***************************************************************************)
(* Bounds of the model.                                                    *)
(***************************************************************************)
MaxCommits == 2
MaxLimit == 2
MaxTicks == 3
MaxEvents == 2
MaxNodes == 3
MaxHybridCommits == 1
MaxRow == 2

(***************************************************************************)
(* Strings.                                                                *)
(***************************************************************************)
Whitespace == {" ", "\t"}

\* str::ends_with
EndsWith(s, t) ==
    /\ Len(t) <= Len(s)
    /\ SubSeq(s, Len(s) - Len(t) + 1, Len(s)) = t

RECURSIVE TrimStart(_)
TrimStart(s) ==
    IF s # <<>> /\ Head(s) \in Whitespace THEN TrimStart(Tail(s)) ELSE s

RECURSIVE TrimEnd(_)
TrimEnd(s) ==
    IF s # <<>> /\ s[Len(s)] \in Whitespace
    THEN TrimEnd(SubSeq(s, 1, Len(s) - 1)) ELSE s

\* str::trim
Trim(s) == TrimEnd(TrimStart(s))

Min(a, b) == IF a <= b THEN a ELSE b

\* Iterator::take followed by collect
Take(s, n) == SubSeq(s, 1, Min(n, Len(s)))

\* the iteration orders a std HashMap / HashSet with key set S can produce
IterOrders(S) ==
    { o \in [1..Cardinality(S) -> S] :
        \A i, j \in 1..Cardinality(S) : i # j => o[i] # o[j] }

(***************************************************************************)
(* The history source: git log --name-only --pretty=format:COMMIT_START.   *)
(***************************************************************************)
SEP == <<"COMMIT_START">>

\* the paths git can list, in the order git lists them within one commit
PathList == << <<"a">>, <<"b">>, <<"c", " ">>, <<"d", "/", "a">> >>

PathSet == { PathList[i] : i \in 1..Len(PathList) }

\* one commit: each changed path once, in git's order
Commits == { SelectSeq(PathList, LAMBDA p : p \in S) : S \in SUBSET PathSet }

Repos == UNION { [1..n -> Commits] : n \in 0..MaxCommits }

Targets == { <<"a">>, <<"d", "/", "a">> }

\* for get_related_files alone also the empty target string
MinerTargets == Targets \cup { <<>> }

\* what git prints for a sequence of commits: the separator line, the
\* changed paths one per line, and an empty line between two commits
RECURSIVE RenderLog(_)
RenderLog(commits) ==
    IF commits = <<>> THEN <<>>
    ELSE <<SEP>> \o Head(commits)
         \o (IF Len(commits) > 1 THEN << <<>> >> ELSE <<>>)
         \o RenderLog(Tail(commits))

(***************************************************************************)
(* get_related_files: parsing and counting.                                *)
(***************************************************************************)
\* stdout_sep.split("COMMIT_START"): the blocks of lines between separators
RECURSIVE SplitBlocks(_)
SplitBlocks(text) ==
    IF text = <<>> THEN << <<>> >>
    ELSE LET rest == SplitBlocks(SubSeq(text, 1, Len(text) - 1))
             last == text[Len(text)]
         IN  IF last = SEP THEN Append(rest, <<>>)
             ELSE [rest EXCEPT ![Len(rest)] = Append(@, last)]

\* commit_block.lines().map(trim).filter(not empty).collect()
BlockFiles(block) ==
    SelectSeq([i \in 1..Len(block) |-> Trim(block[i])], LAMBDA l : l # <<>>)

\* *f == target_file || f.ends_with(&target_file)
MatchesTarget(f, target) == f = target \/ EndsWith(f, target)

ContainsTargetExactOnly(files, target) ==
    \E i \in 1..Len(files) : files[i] = target

\* files.iter().any(..)
ContainsTarget(files, target) ==
    \E i \in 1..Len(files) : MatchesTarget(files[i], target)

IsOtherExactOnly(file, target) == file # target

\* file != target_file && !file.ends_with(&target_file)
IsOther(file, target) == file # target /\ ~EndsWith(file, target)

\* *co_occurrence.entry(file).or_insert(0) += 1
Bump(co, file) ==
    IF file \in DOMAIN co THEN [co EXCEPT ![file] = @ + 1]
    ELSE [f \in DOMAIN co \cup {file} |-> IF f = file THEN 1 ELSE co[f]]

\* for file in files { if .. { .. += 1 } }
RECURSIVE CountFiles(_, _, _)
CountFiles(co, files, target) ==
    IF files = <<>> THEN co
    ELSE CountFiles(IF IsOther(Head(files), target) THEN Bump(co, Head(files)) ELSE co,
                    Tail(files), target)

\* the body of the for loop over the commit blocks
ScanBlock(co, block, target) ==
    LET files == BlockFiles(block)
    IN  IF ContainsTarget(files, target) THEN CountFiles(co, files, target) ELSE co

ComesBeforeAscending(a, b) == a.count <= b.count

\* sort_by(|a, b| b.1.cmp(&a.1)) keeps a before b unless b's count is greater
ComesBefore(a, b) == a.count >= b.count

\* insert e behind the entries that stay before it (the sort is stable)
RECURSIVE InsertSorted(_, _)
InsertSorted(sorted, e) ==
    IF sorted = <<>> THEN <<e>>
    ELSE IF ComesBefore(Head(sorted), e)
         THEN <<Head(sorted)>> \o InsertSorted(Tail(sorted), e)
         ELSE <<e>> \o sorted

RECURSIVE SortByCountDesc(_)
SortByCountDesc(s) ==
    IF s = <<>> THEN <<>>
    ELSE InsertSorted(SortByCountDesc(SubSeq(s, 1, Len(s) - 1)), s[Len(s)])

EmptyMap == [f \in {} |-> 0]

None == [some |-> FALSE]
Some(x) == [some |-> TRUE, val |-> x]

NoEvent == [kind |-> "none", paths |-> <<>>]

Ok(files) == [tag |-> "Ok", files |-> files]
Err == [tag |-> "Err", files |-> <<>>]

(***************************************************************************)
(* get_related_files as a state machine.                                   *)
(***************************************************************************)
ChunkIdle ==
    /\ language = "none"
    /\ tree = <<>>
    /\ c_pc = "idle"
    /\ node = 1
    /\ current_class = <<>>
    /\ chunks = <<>>

NoCall == [threshold |-> 0, log2 |-> "none", ret |-> [tag |-> "none", files |-> <<>>]]

HybridIdle ==
    /\ on_disk = <<>>
    /\ threshold_score = 0
    /\ h_pc = "idle"
    /\ git_run = "none"
    /\ git_files = <<>>
    /\ scored_files = <<>>
    /\ h_ret = [tag |-> "none", files |-> <<>>]
    /\ prev = NoCall

MinerInputsIdle ==
    /\ repo = <<>>
    /\ target_file = <<"a">>
    /\ limit = 0

WatchIdle ==
    /\ rx = <<>>
    /\ cur = NoEvent
    /\ clock = 0
    /\ ticks = 0
    /\ sent = 0
    /\ last_events = EmptyMap
    /\ out = <<>>
    /\ errs = 0
    /\ dropped = 0

MinerIdle ==
    /\ pc = "start"
    /\ log1 = "none"
    /\ log2 = "none"
    /\ retrieved = <<>>
    /\ stdout_sep = <<>>
    /\ block_idx = 1
    /\ co_occurrence = EmptyMap
    /\ related = <<>>
    /\ ret = [tag |-> "none", files |-> <<>>]

InitMiner ==
    /\ repo \in Repos
    /\ target_file \in MinerTargets
    /\ limit \in 0..MaxLimit
    /\ MinerIdle
    /\ WatchIdle
    /\ ChunkIdle
    /\ HybridIdle

\* lines 11-19: the first git log; its output is not used
GitLog1 ==
    /\ pc = "start"
    /\ \E outcome \in {"spawn_error", "exit_nonzero", "success"} :
        /\ log1' = outcome
        /\ CASE outcome = "spawn_error" -> pc' = "done" /\ ret' = Err
             [] outcome = "exit_nonzero" -> pc' = "done" /\ ret' = Ok(<<>>)
             [] OTHER -> pc' = "log2" /\ UNCHANGED ret
    /\ UNCHANGED <<repo, target_file, limit, log2, retrieved, stdout_sep,
                   block_idx, co_occurrence, related>>
    /\ UNCHANGED <<watchVars, chunkVars, hybridVars>>

\* lines 39-45: the second git log; its exit status is never looked at, so
\* whatever it printed before it ended is parsed
GitLog2 ==
    /\ pc = "log2"
    /\ \E outcome \in {"spawn_error", "exit_nonzero", "success"} :
        /\ log2' = outcome
        /\ CASE outcome = "spawn_error" ->
                  /\ pc' = "done" /\ ret' = Err
                  /\ UNCHANGED <<retrieved, stdout_sep>>
             [] outcome = "exit_nonzero" ->
                  /\ \E k \in 0..Len(repo) : retrieved' = SubSeq(repo, 1, k)
                  /\ stdout_sep' = RenderLog(retrieved')
                  /\ pc' = "scan" /\ UNCHANGED ret
             [] OTHER ->
                  /\ retrieved' = repo
                  /\ stdout_sep' = RenderLog(repo)
                  /\ pc' = "scan" /\ UNCHANGED ret
    /\ UNCHANGED <<repo, target_file, limit, log1, block_idx, co_occurrence, related>>
    /\ UNCHANGED <<watchVars, chunkVars, hybridVars>>

\* lines 56-73: one iteration of the loop over the blocks
ScanStep ==
    /\ pc = "scan"
    /\ block_idx <= Len(SplitBlocks(stdout_sep))
    /\ co_occurrence' = ScanBlock(co_occurrence, SplitBlocks(stdout_sep)[block_idx], target_file)
    /\ block_idx' = block_idx + 1
    /\ UNCHANGED <<repo, target_file, limit, pc, log1, log2, retrieved, stdout_sep,
                   related, ret>>
    /\ UNCHANGED <<watchVars, chunkVars, hybridVars>>

\* line 76: co_occurrence.into_iter().collect(), in the map's iteration order
Collect ==
    /\ pc = "scan"
    /\ block_idx > Len(SplitBlocks(stdout_sep))
    /\ \E o \in IterOrders(DOMAIN co_occurrence) :
        related' = [i \in 1..Len(o) |-> [file |-> o[i], count |-> co_occurrence[o[i]]]]
    /\ pc' = "sort"
    /\ UNCHANGED <<repo, target_file, limit, log1, log2, retrieved, stdout_sep,
                   block_idx, co_occurrence, ret>>
    /\ UNCHANGED <<watchVars, chunkVars, hybridVars>>

\* lines 77-85: sort, take(limit), drop the counts, return
SortAndReturn ==
    /\ pc = "sort"
    /\ related' = SortByCountDesc(related)
    /\ ret' = Ok([i \in 1..Len(Take(related', limit)) |-> related'[i].file])
    /\ pc' = "done"
    /\ UNCHANGED <<repo, target_file, limit, log1, log2, retrieved, stdout_sep,
                   block_idx, co_occurrence>>
    /\ UNCHANGED <<watchVars, chunkVars, hybridVars>>

NextMiner == GitLog1 \/ GitLog2 \/ ScanStep \/ Collect \/ SortAndReturn

SpecMiner == InitMiner /\ [][NextMiner]_vars

(***************************************************************************)
(* The watcher (watcher.rs): main's loop over the channel.                 *)
(***************************************************************************)
DebounceMs == 500

WatchPaths == {"p", "q"}

EventKinds == {"Create", "Modify", "Remove", "Access"}

\* the paths of one notify event (a rename carries two)
EventPaths == { <<>> } \cup { <<x>> : x \in WatchPaths }
                 \cup { <<x, y>> : x \in WatchPaths, y \in WatchPaths }

ClockSteps == {1, DebounceMs}

ShouldEmitOnce(le, path, t) == path \notin DOMAIN le

ShouldEmitInverted(le, path, t) ==
    IF path \in DOMAIN le THEN t - le[path] < DebounceMs ELSE TRUE

\* lines 36-40: should_emit
ShouldEmit(le, path, t) ==
    IF path \in DOMAIN le THEN t - le[path] > DebounceMs ELSE TRUE

\* last_events.insert(path_str, now)
Insert(le, path, t) == [x \in DOMAIN le \cup {path} |-> IF x = path THEN t ELSE le[x]]

InitWatch ==
    /\ WatchIdle
    /\ MinerInputsIdle
    /\ MinerIdle
    /\ ChunkIdle
    /\ HybridIdle

\* the notify thread sends an event or an error into the channel
Notify ==
    /\ sent < MaxEvents
    /\ sent' = sent + 1
    /\ \/ \E k \in EventKinds, ps \in EventPaths :
            rx' = Append(rx, [ok |-> TRUE, kind |-> k, paths |-> ps])
       \/ rx' = Append(rx, [ok |-> FALSE, kind |-> "error", paths |-> <<>>])
    /\ UNCHANGED <<cur, clock, ticks, last_events, out, errs, dropped>>
    /\ UNCHANGED <<minerVars, chunkVars, hybridVars>>

\* time passes
Tick ==
    /\ ticks < MaxTicks
    /\ ticks' = ticks + 1
    /\ \E d \in ClockSteps : clock' = clock + d
    /\ UNCHANGED <<rx, cur, sent, last_events, out, errs, dropped>>
    /\ UNCHANGED <<minerVars, chunkVars, hybridVars>>

\* lines 27-30, 56-59: main takes the next message; an error is logged, an
\* event of another kind is dropped
Recv ==
    /\ cur = NoEvent
    /\ rx # <<>>
    /\ rx' = Tail(rx)
    /\ LET msg == Head(rx)
       IN  IF ~msg.ok
           THEN errs' = errs + 1 /\ UNCHANGED cur
           ELSE /\ UNCHANGED errs
                /\ cur' = IF msg.kind \in {"Create", "Modify", "Remove"} /\ msg.paths # <<>>
                          THEN [kind |-> msg.kind, paths |-> msg.paths]
                          ELSE NoEvent
    /\ UNCHANGED <<clock, ticks, sent, last_events, out, dropped>>
    /\ UNCHANGED <<minerVars, chunkVars, hybridVars>>

\* lines 32-53: one iteration of the loop over event.paths
HandlePath ==
    /\ cur # NoEvent
    /\ LET path == Head(cur.paths)
           t == clock
       IN  IF ShouldEmit(last_events, path, t)
           THEN /\ last_events' = Insert(last_events, path, t)
                /\ out' = Append(out, [type |-> cur.kind, path |-> path, at |-> t])
                /\ UNCHANGED dropped
           ELSE dropped' = dropped + 1 /\ UNCHANGED <<last_events, out>>
    /\ cur' = IF Len(cur.paths) > 1 THEN [cur EXCEPT !.paths = Tail(@)] ELSE NoEvent
    /\ UNCHANGED <<rx, clock, ticks, sent, errs>>
    /\ UNCHANGED <<minerVars, chunkVars, hybridVars>>

NextWatch == Notify \/ Tick \/ Recv \/ HandlePath

SpecWatch == InitWatch /\ [][NextWatch]_vars

\* main serves the channel for as long as the process runs: the loop over
\* rx takes each message that is there and finishes each event it took
SpecWatchFair == SpecWatch /\ WF_vars(Recv) /\ WF_vars(HandlePath)

\* a create/modify/remove event on path p waits in the channel
Pending(p) ==
    \E k \in 1..Len(rx) :
        /\ rx[k].ok
        /\ rx[k].kind \in {"Create", "Modify", "Remove"}
        /\ \E i \in 1..Len(rx[k].paths) : rx[k].paths[i] = p

\* message n of the channel has been taken and its event handled to the end
Served(n) ==
    \/ sent - Len(rx) > n
    \/ (sent - Len(rx) = n /\ cur = NoEvent)

\* C11 (as claimed): every observed create/modify/remove event on a path is
\* eventually covered by a record for that path, emitted for that event or
\* for a later event on the path: while such an event waits in the
\* channel, a further record for its path is still to come.
C11_EveryEventCovered ==
    \A p \in WatchPaths : \A n \in 0..(2 * MaxEvents) :
        (Pending(p) /\ Len(out) = n)
            ~> (\E i \in (n + 1)..Len(out) : out[i].path = p)

\* C11 (amended): every message sent into the channel is eventually taken
\* and its event handled to the end, and each iteration for a path leaves a
\* record for that path that is at most 500 ms old: the record of this
\* event, or the record of an earlier event on the path in whose window it
\* was dropped.
C11_EveryEventServedAndCoveredWithinWindow ==
    /\ \A n \in 1..MaxEvents : (sent >= n) ~> Served(n)
    /\ [][ (cur # NoEvent /\ cur' # cur) =>
              \E i \in 1..Len(out') :
                  /\ out'[i].path = Head(cur.paths)
                  /\ clock - out'[i].at <= DebounceMs ]_vars

\* C11 witness: both messages were served, one record was emitted, and an
\* iteration for the same path printed nothing because it came within the
\* window of that record.
C11_Witness ==
    /\ sent = MaxEvents /\ rx = <<>> /\ cur = NoEvent
    /\ dropped > 0
    /\ Len(out) = 1
    /\ clock - out[1].at > 0

\* C7: a record for a path is never emitted within the 500 ms that follow an
\* emitted record for the same path, and a create/modify/remove event on a
\* path with no record in the last 500 ms is emitted whatever happened on
\* other paths.
C7_Debounce ==
    [][ /\ Len(out') > Len(out) =>
            \A i \in 1..Len(out) :
                out[i].path = out'[Len(out')].path
                    => out'[Len(out')].at - out[i].at > DebounceMs
        /\ (cur # NoEvent /\ cur' # cur
            /\ \A i \in 1..Len(out) :
                  out[i].path = Head(cur.paths) => clock - out[i].at > DebounceMs)
            => /\ Len(out') = Len(out) + 1
               /\ out'[Len(out')].path = Head(cur.paths)
               /\ out'[Len(out')].at = clock ]_vars

\* C7 witness: on one path a record, then an event 500 ms later that was
\* dropped, then a record 501 ms after the first; and a record on the
\* other path inside the first path's window.
C7_Witness ==
    /\ \E i, j \in 1..Len(out) :
         /\ out[i].path = "p" /\ out[j].path = "p" /\ out[j].at - out[i].at = DebounceMs + 1
    /\ \E i, j \in 1..Len(out) :
         /\ i < j /\ out[i].path = "p" /\ out[j].path = "q"
         /\ out[j].at - out[i].at <= DebounceMs

(***************************************************************************)
(* The chunker (lib.rs): chunk_code and walk_and_chunk.                    *)
(***************************************************************************)
Languages == {"python", "typescript", "go"}

RootKind(lang) == IF lang = "python" THEN "module" ELSE "program"

\* the node kinds of the grammar below the root: the chunkable ones and one
\* kind that only groups children
ChunkableKinds(lang) ==
    IF lang = "python" THEN {"function_definition", "class_definition"}
    ELSE {"function_declaration", "method_definition", "class_declaration"}

OtherKind(lang) == IF lang = "python" THEN "block" ELSE "class_body"

FieldNames == {None, Some("A"), Some("B")}
FieldKeys == {None, Some("K")}

RootOf(lang) ==
    [kind |-> RootKind(lang), name |-> None, key |-> None,
     start_row |-> 0, end_row |-> MaxRow, parent |-> 0]

RECURSIVE Ancestors(_, _)
Ancestors(t, i) == IF t[i].parent = 0 THEN {} ELSE {t[i].parent} \cup Ancestors(t, t[i].parent)

\* the nodes a parser can produce as a child of node q of tree t: a node
\* lies within the rows of its parent
ChildrenOf(lang, t, q) ==
    { [kind |-> k, name |-> n, key |-> ky, start_row |-> s, end_row |-> e, parent |-> q] :
        k \in ChunkableKinds(lang), n \in FieldNames, ky \in FieldKeys,
        s \in t[q].start_row..t[q].end_row, e \in t[q].start_row..t[q].end_row }
    \cup
    { [kind |-> OtherKind(lang), name |-> None, key |-> None,
       start_row |-> s, end_row |-> e, parent |-> q] :
        s \in t[q].start_row..t[q].end_row, e \in t[q].start_row..t[q].end_row }

\* the trees of n nodes in pre-order: the parent of a node is the node
\* before it or one of that node's ancestors
RECURSIVE TreesOf(_, _)
TreesOf(lang, n) ==
    IF n = 1 THEN { <<RootOf(lang)>> }
    ELSE UNION { { Append(t, x) :
                     x \in { y \in UNION { ChildrenOf(lang, t, q) :
                                             q \in {n - 1} \cup Ancestors(t, n - 1) } :
                             y.start_row <= y.end_row } } :
                 t \in TreesOf(lang, n - 1) }

Trees(lang) ==
    IF lang \in {"python", "typescript"}
    THEN UNION { TreesOf(lang, n) : n \in 1..MaxNodes }
    ELSE { <<RootOf(lang)>> }

\* lines 102-129: the node type of a chunkable node, "" for any other node
NodeType(lang, kind, parent_class) ==
    CASE lang = "python" /\ kind = "function_definition" ->
            IF parent_class.some THEN "method" ELSE "func"
      [] lang = "python" /\ kind = "class_definition" -> "class"
      [] lang = "typescript" /\ kind = "function_declaration" -> "func"
      [] lang = "typescript" /\ kind = "method_definition" -> "method"
      [] lang = "typescript" /\ kind = "class_declaration" -> "class"
      [] OTHER -> ""

\* lines 132-139: the "name" field, else the "key" field
ExtractedName(n, is_chunk) ==
    IF ~is_chunk THEN None
    ELSE IF n.name.some THEN n.name
    ELSE IF n.key.some THEN n.key
    ELSE None

\* line 145: the span a chunk needs
SpanEnough(start_line, end_line) == end_line - start_line >= 2

\* lines 146-154: the dict of one chunk; the content is the node's own text
ChunkDict(i, n, node_type, extracted_name) ==
    LET base == [start_line |-> n.start_row + 1, end_line |-> n.end_row + 1,
                 content |-> i, node_type |-> node_type]
    IN  IF extracted_name.some THEN base @@ [name |-> extracted_name.val] ELSE base

InitChunk ==
    /\ language \in Languages
    /\ tree \in Trees(language)
    /\ c_pc = "start"
    /\ node = 1
    /\ current_class = <<>>
    /\ chunks = <<>>
    /\ MinerInputsIdle
    /\ MinerIdle
    /\ WatchIdle
    /\ HybridIdle

\* lines 177-192: chunk_code picks the grammar; an unknown language gives no chunks
ChunkCode ==
    /\ c_pc = "start"
    /\ c_pc' = IF language \in {"python", "typescript"} THEN "walk" ELSE "done"
    /\ UNCHANGED <<language, tree, node, current_class, chunks>>
    /\ UNCHANGED <<minerVars, watchVars, hybridVars>>

\* lines 89-174: walk_and_chunk on the next node in pre-order, up to the
\* recursion into its children
Visit ==
    /\ c_pc = "walk"
    /\ node <= Len(tree)
    /\ LET n == tree[node]
           parent_class == IF n.parent = 0 THEN None ELSE current_class[n.parent]
           node_type == NodeType(language, n.kind, parent_class)
           is_chunk == node_type # ""
           extracted_name == ExtractedName(n, is_chunk)
       IN  /\ chunks' = IF is_chunk /\ SpanEnough(n.start_row + 1, n.end_row + 1)
                        THEN Append(chunks, ChunkDict(node, n, node_type, extracted_name))
                        ELSE chunks
           /\ current_class' = Append(current_class,
                                  IF node_type = "class" /\ extracted_name.some
                                  THEN extracted_name ELSE parent_class)
    /\ node' = node + 1
    /\ UNCHANGED <<language, tree, c_pc>>
    /\ UNCHANGED <<minerVars, watchVars, hybridVars>>

\* lines 192-194: the walk is over, chunk_code returns the chunks
ChunkReturn ==
    /\ c_pc = "walk"
    /\ node > Len(tree)
    /\ c_pc' = "done"
    /\ UNCHANGED <<language, tree, node, current_class, chunks>>
    /\ UNCHANGED <<minerVars, watchVars, hybridVars>>

NextChunk == ChunkCode \/ Visit \/ ChunkReturn

SpecChunk == InitChunk /\ [][NextChunk]_vars

Chunkable(i) == tree[i].kind \in ChunkableKinds(language)

Emitted(i) == \E k \in 1..Len(chunks) : chunks[k].content = i

\* C6 (as claimed): a chunkable node is emitted exactly when
\* end_line - start_line >= 1, that is when it spans at least 2 lines.
C6_TwoLineNodesEmitted ==
    c_pc = "done" =>
        \A i \in 1..Len(tree) :
            (language \in {"python", "typescript"} /\ Chunkable(i))
                => (Emitted(i) <=> tree[i].end_row - tree[i].start_row >= 1)

\* the name of the nearest named class that encloses node i, if any
RECURSIVE NearestClass(_)
NearestClass(i) ==
    LET q == tree[i].parent
    IN  IF q = 0 THEN None
        ELSE IF tree[q].kind \in {"class_definition", "class_declaration"}
                /\ (tree[q].name.some \/ tree[q].key.some)
             THEN (IF tree[q].name.some THEN tree[q].name ELSE tree[q].key)
             ELSE NearestClass(q)

\* C8 (as claimed): a chunk of a node nested in a named class records the
\* name of the nearest enclosing named class as its enclosing-class name,
\* and a chunk outside every class records none.
C8_ChunkRecordsEnclosingClass ==
    \A k \in 1..Len(chunks) :
        LET enclosing == NearestClass(chunks[k].content)
        IN  IF enclosing.some
            THEN "parent_class" \in DOMAIN chunks[k]
                 /\ chunks[k]["parent_class"] = enclosing.val
            ELSE "parent_class" \notin DOMAIN chunks[k]

(***************************************************************************)
(* get_related_files as one call: every way the call can go.               *)
(***************************************************************************)
RECURSIVE ScanAll(_, _, _)
ScanAll(co, blocks, target) ==
    IF blocks = <<>> THEN co
    ELSE ScanAll(ScanBlock(co, Head(blocks), target), Tail(blocks), target)

\* lines 76-85 for one iteration order of the map
Ranked(co, o, lim) ==
    LET sorted == SortByCountDesc([i \in 1..Len(o) |-> [file |-> o[i], count |-> co[o[i]]]])
    IN  [i \in 1..Min(lim, Len(sorted)) |-> sorted[i].file]

\* the calls of get_related_files that get as far as parsing "printed"
ParsedRuns(printed, how, target, lim) ==
    LET co == ScanAll(EmptyMap, SplitBlocks(RenderLog(printed)), target)
    IN  { [log2 |-> how, ret |-> Ok(Ranked(co, o, lim))] : o \in IterOrders(DOMAIN co) }

MinerRuns(commits, target, lim) ==
    { [log2 |-> "none", ret |-> Err], [log2 |-> "none", ret |-> Ok(<<>>)],
      [log2 |-> "spawn_error", ret |-> Err] }
    \cup ParsedRuns(commits, "success", target, lim)
    \cup UNION { ParsedRuns(SubSeq(commits, 1, k), "exit_nonzero", target, lim) :
                   k \in 0..Len(commits) }

(***************************************************************************)
(* The hybrid scorer (hybrid_graph.rs).  A score is kept exactly, as the   *)
(* numerator of a fraction over 10 * git_files.len(); a threshold is in    *)
(* tenths.                                                                 *)
(***************************************************************************)
Missing == << <<"-">> >>

\* the import specifiers of the target file on disk
ImportLists == { << <<"b">> >>, << <<"d", ".", "a">>, <<"a">> >> }

Thresholds == {0, 4, 9}

\* imp.split('.') joined with "/"
Slashed(imp) == [i \in 1..Len(imp) |-> IF imp[i] = "." THEN "/" ELSE imp[i]]

\* str::contains
Contains(s, sub) ==
    \E k \in 1..(Len(s) + 1) :
        k + Len(sub) - 1 <= Len(s) /\ SubSeq(s, k, k + Len(sub) - 1) = sub

\* lines 29-33: static_imports, empty when the file does not exist
StaticImports(disk) == IF disk = Missing THEN <<>> ELSE disk

\* lines 35-49: static_set
StaticSet(static_imports) == { Slashed(static_imports[i]) : i \in 1..Len(static_imports) }

GitMapFromZero(files) ==
    [f \in { files[i] : i \in 1..Len(files) } |->
        Len(files) - (CHOOSE i \in 1..Len(files) :
                         files[i] = f /\ \A j \in (i + 1)..Len(files) : files[j] # f)]

\* lines 20-24: git_map, the rank weight of each file of git_files
GitMap(files) ==
    [f \in { files[i] : i \in 1..Len(files) } |->
        Len(files) - ((CHOOSE i \in 1..Len(files) :
                          files[i] = f /\ \A j \in (i + 1)..Len(files) : files[j] # f) - 1)]

\* line 59: git_map.get(&candidate).copied().unwrap_or(0)
GitRank(git_map, candidate) == IF candidate \in DOMAIN git_map THEN git_map[candidate] ELSE 0

\* lines 64-66: is_static
IsStatic(static_set, candidate) == \E imp \in static_set : Contains(candidate, imp)

ScoreOfAssigned(is_static, git_rank, n) ==
    (IF git_rank > 0 THEN 5 * git_rank ELSE IF is_static THEN 7 * n ELSE 0)
    + (IF is_static /\ git_rank > 0 THEN 2 * n ELSE 0)

\* lines 68-86: the score, times 10 * n
ScoreOf(is_static, git_rank, n) ==
    (IF is_static THEN 7 * n ELSE 0)
    + (IF git_rank > 0 THEN 5 * git_rank ELSE 0)
    + (IF is_static /\ git_rank > 0 THEN 2 * n ELSE 0)

\* lines 69, 73-74, 80, 89: reasons.join("+")
Reasons(is_static, git_rank) ==
    CASE is_static /\ git_rank > 0 -> "imported+git-history"
      [] is_static -> "imported"
      [] git_rank > 0 -> "git-history"
      [] OTHER -> ""

\* line 88: score >= threshold_score
PassesThreshold(num, n, threshold) == num >= threshold * n

\* lines 58-91 for the candidates in the order o
RECURSIVE ScoreAll(_, _, _, _, _)
ScoreAll(o, git_map, static_set, n, threshold) ==
    IF o = <<>> THEN <<>>
    ELSE LET candidate == o[Len(o)]
             git_rank == GitRank(git_map, candidate)
             is_static == IsStatic(static_set, candidate)
             num == ScoreOf(is_static, git_rank, n)
             before == ScoreAll(SubSeq(o, 1, Len(o) - 1), git_map, static_set, n, threshold)
         IN  IF PassesThreshold(num, n, threshold)
             THEN Append(before, [file |-> candidate, num |-> num, den |-> 10 * n,
                                  reasons |-> Reasons(is_static, git_rank)])
             ELSE before

\* line 94: sort_by(|a, b| b.1.partial_cmp(&a.1)), stable
RECURSIVE InsertByScore(_, _)
InsertByScore(sorted, e) ==
    IF sorted = <<>> THEN <<e>>
    ELSE IF Head(sorted).num >= e.num
         THEN <<Head(sorted)>> \o InsertByScore(Tail(sorted), e)
         ELSE <<e>> \o sorted

RECURSIVE SortByScoreDesc(_)
SortByScoreDesc(s) ==
    IF s = <<>> THEN <<>>
    ELSE InsertByScore(SortByScoreDesc(SubSeq(s, 1, Len(s) - 1)), s[Len(s)])

InitHybrid ==
    /\ repo \in UNION { [1..n -> Commits] : n \in 0..MaxHybridCommits }
    /\ target_file \in Targets
    /\ limit \in 0..MaxLimit
    /\ on_disk \in ImportLists \cup {Missing}
    /\ threshold_score = 0
    /\ h_pc = "idle"
    /\ git_run = "none"
    /\ git_files = <<>>
    /\ scored_files = <<>>
    /\ h_ret = [tag |-> "none", files |-> <<>>]
    /\ prev = NoCall
    /\ MinerIdle
    /\ WatchIdle
    /\ ChunkIdle

\* a caller calls get_hybrid_context on the same target, repository and
\* limit with some threshold; the call before it is remembered
HybridCall ==
    /\ h_pc \in {"idle", "done"}
    /\ \E t \in Thresholds : threshold_score' = t
    /\ prev' = IF h_pc = "done"
               THEN [threshold |-> threshold_score, log2 |-> git_run, ret |-> h_ret]
               ELSE prev
    /\ h_pc' = "mine"
    /\ git_run' = "none"
    /\ git_files' = <<>>
    /\ scored_files' = <<>>
    /\ h_ret' = [tag |-> "none", files |-> <<>>]
    /\ UNCHANGED <<on_disk>>
    /\ UNCHANGED <<minerVars, watchVars, chunkVars>>

\* line 17: get_related_files(target_file, root_dir, limit * 3)?
HybridMine ==
    /\ h_pc = "mine"
    /\ \E run \in MinerRuns(repo, target_file, limit * 3) :
        /\ git_run' = run.log2
        /\ IF run.ret.tag = "Err"
           THEN h_pc' = "done" /\ h_ret' = Err /\ UNCHANGED git_files
           ELSE h_pc' = "score" /\ git_files' = run.ret.files /\ UNCHANGED h_ret
    /\ UNCHANGED <<on_disk, threshold_score, scored_files, prev>>
    /\ UNCHANGED <<minerVars, watchVars, chunkVars>>

\* lines 20-91: the rank map, the imports and the scoring loop over the
\* candidates, in the iteration order of the set all_candidates
HybridScore ==
    /\ h_pc = "score"
    /\ LET git_map == GitMap(git_files)
           static_set == StaticSet(StaticImports(on_disk))
       IN  \E o \in IterOrders(DOMAIN git_map) :
              scored_files' = ScoreAll(o, git_map, static_set, Len(git_files), threshold_score)
    /\ h_pc' = "sort"
    /\ UNCHANGED <<on_disk, threshold_score, git_run, git_files, h_ret, prev>>
    /\ UNCHANGED <<minerVars, watchVars, chunkVars>>

\* lines 93-96: sort by score, take(limit), return
HybridReturn ==
    /\ h_pc = "sort"
    /\ scored_files' = SortByScoreDesc(scored_files)
    /\ h_ret' = Ok(Take(scored_files', limit))
    /\ h_pc' = "done"
    /\ UNCHANGED <<on_disk, threshold_score, git_run, git_files, prev>>
    /\ UNCHANGED <<minerVars, watchVars, chunkVars>>

NextHybrid == HybridCall \/ HybridMine \/ HybridScore \/ HybridReturn

SpecHybrid == InitHybrid /\ [][NextHybrid]_vars

ReturnedPaths(r) == { r.files[i].file : i \in 1..Len(r.files) }

\* C4 (as claimed): for the same target, history, imports and limit, a call
\* with a threshold at least as high as another call's returns a subset of
\* the other call's candidates.
C4_ThresholdMonotone ==
    (/\ h_pc = "done" /\ h_ret.tag = "Ok" /\ git_run = "success"
     /\ prev.ret.tag = "Ok" /\ prev.log2 = "success") =>
        /\ prev.threshold <= threshold_score
              => ReturnedPaths(h_ret) \subseteq ReturnedPaths(prev.ret)
        /\ threshold_score <= prev.threshold
              => ReturnedPaths(prev.ret) \subseteq ReturnedPaths(h_ret)

\* C5: a candidate for which both signals fired has a score strictly greater
\* than the score it gets from the static signal alone and than the score
\* it gets from the git-history signal alone.
C5_BothSignalsScoreHigher ==
    \A i \in 1..Len(scored_files) :
        LET e == scored_files[i]
            n == Len(git_files)
            git_rank == GitRank(GitMap(git_files), e.file)
        IN  e.reasons = "imported+git-history" =>
                /\ git_rank \in 1..n
                /\ e.num > 7 * n
                /\ e.num > 5 * git_rank

C5_Witness ==
    /\ h_pc = "done" /\ h_ret.tag = "Ok"
    /\ \E i \in 1..Len(h_ret.files) :
         /\ h_ret.files[i].reasons = "imported+git-history"
         /\ GitRank(GitMap(git_files), h_ret.files[i].file) < Len(git_files)

(***************************************************************************)
(* Claims about get_related_files.                                         *)
(***************************************************************************)
Returned == pc = "done" /\ ret.tag = "Ok"

ResultSet == { ret.files[i] : i \in 1..Len(ret.files) }

\* the trimmed, non-empty path lines of one retrieved commit
GroupFiles(c) == { Trim(c[i]) : i \in 1..Len(c) } \ { <<>> }

\* the retrieved commit groups that contain the target, exactly or as a suffix
GroupsWithTarget ==
    { i \in 1..Len(retrieved) :
        \E f \in GroupFiles(retrieved[i]) :
            \/ f = target_file
            \/ (Len(target_file) <= Len(f)
                /\ SubSeq(f, Len(f) - Len(target_file) + 1, Len(f)) = target_file) }

\* the number of retrieved commit groups that contain both f and the target
CoCount(f) == Cardinality({ i \in GroupsWithTarget : f \in GroupFiles(retrieved[i]) })

IsTargetPath(f) ==
    \/ f = target_file
    \/ (Len(target_file) <= Len(f)
        /\ SubSeq(f, Len(f) - Len(target_file) + 1, Len(f)) = target_file)

RetrievedFiles == UNION { GroupFiles(retrieved[i]) : i \in 1..Len(retrieved) }

\* C1: the list get_related_files returns contains no path that equals the
\* target or ends with the target string.
C1_TargetExcluded ==
    Returned => \A f \in ResultSet : ~IsTargetPath(f)

\* C1 witness: a call returned candidates although a path that merely ends
\* with the target ("d/a" for target "a") was in a scanned group.
C1_Witness ==
    /\ Returned
    /\ ret.files # <<>>
    /\ target_file = <<"a">>
    /\ \E i \in GroupsWithTarget : <<"d", "/", "a">> \in GroupFiles(retrieved[i])

\* C2 (as claimed): whenever one of the two git log invocations fails (not
\* spawnable, or non-zero exit), get_related_files returns Ok with an empty
\* list and never an error.
C2_FailureGivesEmptyList ==
    (pc = "done" /\ ({log1, log2} \cap {"spawn_error", "exit_nonzero"} # {}))
        => ret = Ok(<<>>)

\* C3: the returned list has at most `limit` entries, is in non-increasing
\* order of co-occurrence count, and no candidate left out has a strictly
\* greater count than a returned one.
C3_TopLimitByCount ==
    Returned =>
        /\ Len(ret.files) <= limit
        /\ ResultSet \subseteq DOMAIN co_occurrence
        /\ \A i, j \in 1..Len(ret.files) :
              i < j => co_occurrence[ret.files[i]] >= co_occurrence[ret.files[j]]
        /\ \A f \in (DOMAIN co_occurrence) \ ResultSet :
              \A g \in ResultSet : co_occurrence[f] <= co_occurrence[g]

\* C3 witness: three candidates, limit 2, the two returned have different
\* counts and one candidate is cut off.
C3_Witness ==
    /\ Returned
    /\ limit = 2
    /\ Len(ret.files) = 2
    /\ Cardinality(DOMAIN co_occurrence) = 3
    /\ co_occurrence[ret.files[1]] > co_occurrence[ret.files[2]]

RECURSIVE FirstSeen(_, _)
FirstSeen(files, seen) ==
    IF files = <<>> THEN seen
    ELSE LET f == Head(files)
             known == \E i \in 1..Len(seen) : seen[i] = f
         IN  FirstSeen(Tail(files),
                       IF IsTargetPath(f) \/ known THEN seen ELSE Append(seen, f))

RECURSIVE FirstSeenOrder(_, _)
FirstSeenOrder(blocks, seen) ==
    IF blocks = <<>> THEN seen
    ELSE LET files == BlockFiles(Head(blocks))
         IN  FirstSeenOrder(Tail(blocks),
                 IF \E i \in 1..Len(files) : IsTargetPath(files[i])
                 THEN FirstSeen(files, seen) ELSE seen)

FirstSeenResult ==
    LET order == FirstSeenOrder(SplitBlocks(stdout_sep), <<>>)
        sorted == SortByCountDesc(
                     [i \in 1..Len(order) |->
                        [file |-> order[i], count |-> co_occurrence[order[i]]]])
    IN  [i \in 1..Min(limit, Len(sorted)) |-> sorted[i].file]

\* C10 (as claimed): candidates with equal counts are returned in the order
\* in which the scan first inserted them, so the result is a function of
\* the history text.
C10_TiesInFirstSeenOrder ==
    (Returned /\ log2 = "success") => ret.files = FirstSeenResult

====
